---- MODULE Spec2Model ----
(***************************************************************************)
(* Model of the finance monorepo's stateful core:                          *)
(*   - the in-memory idempotency layer and its no-op variant               *)
(*     (packages/finance-powertools/src/runtime/resilience/idempotency.ts) *)
(*   - the account aggregate (domain/banking/account.ts)                   *)
(*   - Money (domain/shared/money.ts) and the mapper of external records   *)
(*     (infrastructure/plaid/mappers.ts)                                   *)
(* Each component has its own specification over its own variables.        *)
(***************************************************************************)
EXTENDS Integers, Sequences, FiniteSets, TLC

(***************************************************************************)
(* Bounds of the model.                                                    *)
(***************************************************************************)
\* Date.now() ranges over 0..MaxTime.
MaxTime == 2
\* Wrapped operations run on one cache instance whose operations are
\* asynchronous (specification Spec).
MaxRuns == 2
\* Wrapped operations run on one cache instance whose operations are
\* synchronous: specification SpecSeq, and specification SpecKey.
MaxSeqRuns == 2
MaxKeyRuns == 3
\* execute calls made with one key on the no-op layer.
MaxNoOpCalls == 2
\* Money amounts range over -MaxCents..MaxCents hundredths of a unit.
MaxCents == 3
\* The amounts of the transaction records range over -MaxMills..MaxMills
\* thousandths of a unit.
MaxMills == 35

\* Keys the callers use; the empty string is a string like any other.
Keys == {"", "a", "b"}
\* The keys whose history is followed: no definition tells "a" from "b".
WatchKeys == {"", "a"}
\* options.ttlMs and options.maxEntries of the instances explored.
TtlOptions == {0, 1}
MaxEntriesOptions == {1, 2}
\* How a wrapped operation settles.
Settlements == {"Success", "Failure"}
\* How far the clock may move between two readings inside one call.
ClockDrift == {0, 1}
\* Date.now() as the account operations read it.
AccountTimes == {0, 1}

\* StoredExit.expiresAt === null
NoExpiry == -1

VARIABLES
    \* ---- inMemoryIdempotencyLayer ----
    ttlMs,        \* options.ttlMs of the instance
    maxEntries,   \* options.maxEntries of the instance
    store,        \* the Map<string, StoredExit>, in insertion order
    now,          \* Date.now()
    calls,        \* how many wrapped operations have been run (the tests' counter)
    inflight,     \* execute calls suspended at `yield* Effect.exit(effect)`
    ret,          \* the exit the step just taken returned to its caller, if any
    \* ---- history of the calls, for stating the properties ----
    ev,           \* Spec: the step just taken, its kind and its key
    watch,        \* the key whose history w and h record
    w,            \* Spec: clear and failure history of the key `watch`
    h,            \* SpecKey: run history of the key `watch`
    prevCall,     \* SpecSeq: the execute that returned before lastCall
    lastCall,     \* SpecSeq: the last execute that returned
    \* ---- noOpIdempotencyLayer ----
    noopCalls,    \* how many wrapped operations have been run (the test's counter)
    noopRet,      \* the exit the step just taken returned to its caller, if any
    noopExecs,    \* per key, how many execute calls were made
    noopRan,      \* per key, how many of the operations passed to execute ran
    noopEv,       \* the step just taken, its kind and its key
    \* ---- account aggregate ----
    account,      \* the Account value the caller holds
    accountNow,   \* Date.now()
    out,          \* the operation just applied and how its Effect ended
    \* ---- mapper ----
    raw,          \* the external record the mapper is given
    mapped,       \* how mapping it ended, once it is mapped
    \* ---- money ----
    moneyArgs,    \* the money operation called and its arguments
    moneyRet      \* how its Effect ended, once it has run

cacheVars == <<ttlMs, maxEntries, store, now, calls, inflight, ret>>
histVars == <<ev, watch, w, h, prevCall, lastCall>>
noopVars == <<noopCalls, noopRet, noopExecs, noopRan, noopEv>>
accountVars == <<account, accountNow, out>>
mapperVars == <<raw, mapped>>
moneyVars == <<moneyArgs, moneyRet>>

vars == <<cacheVars, histVars, noopVars, accountVars, mapperVars, moneyVars>>

(***************************************************************************)
(* The store: a JavaScript Map keeps its keys in insertion order, and      *)
(* setting an existing key keeps that key's position.                      *)
(***************************************************************************)
storeIndex(s, k) ==
    IF \E i \in 1..Len(s) : s[i].key = k
    THEN CHOOSE i \in 1..Len(s) : s[i].key = k
    ELSE 0

storeHas(s, k) == storeIndex(s, k) # 0

storeGet(s, k) == s[storeIndex(s, k)]

\* Mutants of storeDelete: a clear that deletes nothing, a clear that
\* empties the Map (store.clear() for store.delete(key)).
storeDelete_Nothing(s, k) == s

storeDelete_All(s, k) == <<>>

storeDelete(s, k) == SelectSeq(s, LAMBDA r : r.key # k)

\* Mutant of storeSet: only successful exits are stored.
storeSet_SuccessOnly(s, k, exit, expiresAt) ==
    IF exit.tag = "Failure" THEN s
    ELSE IF \E i \in 1..Len(s) : s[i].key = k
         THEN [s EXCEPT ![CHOOSE i \in 1..Len(s) : s[i].key = k] =
                    [key |-> k, exit |-> exit, expiresAt |-> expiresAt]]
         ELSE Append(s, [key |-> k, exit |-> exit, expiresAt |-> expiresAt])

\* Mutant of storeSet: an existing entry is kept (first write wins).
storeSet_KeepFirst(s, k, exit, expiresAt) ==
    IF \E i \in 1..Len(s) : s[i].key = k
    THEN s
    ELSE Append(s, [key |-> k, exit |-> exit, expiresAt |-> expiresAt])

storeSet(s, k, exit, expiresAt) ==
    LET rec == [key |-> k, exit |-> exit, expiresAt |-> expiresAt]
    IN  IF storeHas(s, k)
        THEN [s EXCEPT ![storeIndex(s, k)] = rec]
        ELSE Append(s, rec)

storeKeys(s) == {s[i].key : i \in 1..Len(s)}

\* Mutants of isExpired: expired already at expiresAt (>= for >), and
\* never expired.
isExpired_AtExpiry(item, t) == item.expiresAt # NoExpiry /\ t >= item.expiresAt

isExpired_Never(item, t) == FALSE

\* isExpired, with the Date.now() it reads as parameter t.
isExpired(item, t) == item.expiresAt # NoExpiry /\ t > item.expiresAt

prune(s, t) == SelectSeq(s, LAMBDA r : ~isExpired(r, t))

\* Lines 53-58: at capacity, delete the first key of the Map, if it is truthy.
\* `if (oldestKey)` is false for undefined (empty Map) and for the key "".
evictOldest(s, cap) ==
    IF Len(s) >= cap
    THEN IF Len(s) > 0 /\ Head(s).key # "" THEN Tail(s) ELSE s
    ELSE s

\* expiresAt: ttlMs > 0 ? Date.now() + ttlMs : null
newExpiry_Always(ttl, t) == t + ttl

newExpiry(ttl, t) == IF ttl > 0 THEN t + ttl ELSE NoExpiry

\* A cached entry is live at time t.
cacheHit(s, k, t) == storeHas(s, k) /\ ~isExpired(storeGet(s, k), t)

NoExit == [tag |-> "None", run |-> 0]

\* A step: its kind, its key, and for the start of an execute whether the
\* key's stored entry was past its expiresAt at the lookup.
Event(type, k, stale) == [type |-> type, key |-> k, stale |-> stale]

(***************************************************************************)
(* Init: a fresh layer instance (lines 34-36).                             *)
(***************************************************************************)
CacheInit ==
    /\ ttlMs \in TtlOptions
    /\ maxEntries \in MaxEntriesOptions
    /\ store = <<>>
    /\ now = 0
    /\ calls = 0
    /\ inflight = {}
    /\ ret = NoExit

(***************************************************************************)
(* execute(key, effect), first synchronous segment (lines 41-51), when the *)
(* lookup finds a live entry: prune, then replay the cached exit.  prune   *)
(* reads the clock at `now`, the lookup's isExpired at now + d.            *)
(***************************************************************************)
\* Mutant of ExecuteHit: a replay renews the entry's expiresAt.
ExecuteHit_Refreshes(k, d) ==
    LET pruned == prune(store, now)
        t      == now + d
    IN  /\ t <= MaxTime
        /\ cacheHit(pruned, k, t)
        /\ store' = storeSet(pruned, k, storeGet(pruned, k).exit,
                             newExpiry(ttlMs, t))
        /\ now' = t
        /\ ret' = storeGet(pruned, k).exit
        /\ UNCHANGED <<ttlMs, maxEntries, calls, inflight>>

ExecuteHit(k, d) ==
    LET pruned == prune(store, now)
        t      == now + d
    IN  /\ t <= MaxTime
        /\ cacheHit(pruned, k, t)
        /\ store' = pruned
        /\ now' = t
        /\ ret' = storeGet(pruned, k).exit
        /\ UNCHANGED <<ttlMs, maxEntries, calls, inflight>>

(***************************************************************************)
(* execute(key, effect), first synchronous segment (lines 41-60), when the *)
(* lookup finds no live entry: prune, evict at capacity, start the wrapped *)
(* operation and suspend until it settles.                                 *)
(***************************************************************************)
\* Mutant of ExecuteMiss: the entry is written when the operation starts.
ExecuteMiss_StoresEarly(k, d) ==
    LET pruned == prune(store, now)
        t      == now + d
    IN  /\ t <= MaxTime
        /\ ~cacheHit(pruned, k, t)
        /\ store' = storeSet(evictOldest(pruned, maxEntries), k,
                             [tag |-> "Success", run |-> calls + 1],
                             newExpiry(ttlMs, t))
        /\ now' = t
        /\ calls' = calls + 1
        /\ inflight' = inflight \cup {[key |-> k, run |-> calls + 1]}
        /\ ret' = NoExit
        /\ UNCHANGED <<ttlMs, maxEntries>>

ExecuteMiss(k, d) ==
    LET pruned == prune(store, now)
        t      == now + d
    IN  /\ t <= MaxTime
        /\ ~cacheHit(pruned, k, t)
        /\ store' = evictOldest(pruned, maxEntries)
        /\ now' = t
        /\ calls' = calls + 1
        /\ inflight' = inflight \cup {[key |-> k, run |-> calls + 1]}
        /\ ret' = NoExit
        /\ UNCHANGED <<ttlMs, maxEntries>>

(***************************************************************************)
(* execute(key, effect), second segment (lines 61-71): the operation has   *)
(* settled with `res`; store its exit and return it.                       *)
(***************************************************************************)
ExecuteSettle(f, res) ==
    LET exit == [tag |-> res, run |-> f.run]
    IN  /\ f \in inflight
        /\ store' = storeSet(store, f.key, exit, newExpiry(ttlMs, now))
        /\ inflight' = inflight \ {f}
        /\ ret' = exit
        /\ UNCHANGED <<ttlMs, maxEntries, now, calls>>

(***************************************************************************)
(* execute(key, effect) with a synchronous effect (Effect.sync, as in the  *)
(* tests), on a miss: lines 41-71 run without suspending.  The clock is    *)
(* read at `now` (prune), now + d (lookup) and now + d + d2 (store.set).   *)
(***************************************************************************)
ExecuteSync(k, d, d2, res) ==
    LET pruned == prune(store, now)
        t      == now + d
        t2     == now + d + d2
        exit   == [tag |-> res, run |-> calls + 1]
    IN  /\ t2 <= MaxTime
        /\ ~cacheHit(pruned, k, t)
        /\ store' = storeSet(evictOldest(pruned, maxEntries), k, exit,
                             newExpiry(ttlMs, t2))
        /\ now' = t2
        /\ calls' = calls + 1
        /\ ret' = exit
        /\ UNCHANGED <<ttlMs, maxEntries, inflight>>

(***************************************************************************)
(* clear(key) (lines 74-77).                                               *)
(***************************************************************************)
\* Mutant of Clear: the executes of the key in flight are cancelled.
Clear_Cancels(k) ==
    /\ store' = storeDelete(store, k)
    /\ inflight' = {f \in inflight : f.key # k}
    /\ ret' = NoExit
    /\ UNCHANGED <<ttlMs, maxEntries, now, calls>>

Clear(k) ==
    /\ store' = storeDelete(store, k)
    /\ ret' = NoExit
    /\ UNCHANGED <<ttlMs, maxEntries, now, calls, inflight>>

\* The clock advances between calls; nothing in the layer reacts to it.
Tick ==
    /\ now < MaxTime
    /\ now' = now + 1
    /\ ret' = NoExit
    /\ UNCHANGED <<ttlMs, maxEntries, store, calls, inflight>>

\* A cache instance nobody calls.
CacheIdle ==
    /\ ttlMs = 0
    /\ maxEntries = 1
    /\ store = <<>>
    /\ now = 0
    /\ calls = 0
    /\ inflight = {}
    /\ ret = NoExit

(***************************************************************************)
(* noOpIdempotencyLayer (lines 84-87).  An Effect is a description of work *)
(* that does nothing until its caller runs it: the tests' operation        *)
(* Effect.sync(() => ++calls) is "increment", Effect.void is "void".       *)
(***************************************************************************)
EffectIncrement(res) == [op |-> "increment", settles |-> res]

EffectVoid == [op |-> "void", settles |-> "Success"]

\* execute: (_key, effect) => effect
noOpExecute_OncePerKey(k, effect) ==
    IF noopExecs[k] > 0 THEN EffectVoid ELSE effect

noOpExecute(k, effect) == effect

\* clear: () => Effect.void
noOpClear(k) == EffectVoid

\* The caller runs the Effect the layer handed back.
runsOperation(effect) == effect.op = "increment"

NoOpInit ==
    /\ noopCalls = 0
    /\ noopRet = NoExit
    /\ noopExecs = [k \in Keys |-> 0]
    /\ noopRan = [k \in Keys |-> 0]
    /\ noopEv = [type |-> "init", key |-> ""]

NoOpExecute(k, res) ==
    LET effect == noOpExecute(k, EffectIncrement(res)) IN
        /\ noopExecs[k] < MaxNoOpCalls
        /\ noopExecs' = [noopExecs EXCEPT ![k] = @ + 1]
        /\ IF runsOperation(effect)
           THEN /\ noopCalls' = noopCalls + 1
                /\ noopRan' = [noopRan EXCEPT ![k] = @ + 1]
                /\ noopRet' = [tag |-> effect.settles, run |-> noopCalls + 1]
           ELSE /\ UNCHANGED <<noopCalls, noopRan>>
                /\ noopRet' = NoExit
        /\ noopEv' = [type |-> "execute", key |-> k]

NoOpClear(k) ==
    LET effect == noOpClear(k) IN
        /\ IF runsOperation(effect)
           THEN /\ noopCalls' = noopCalls + 1
                /\ noopRet' = [tag |-> effect.settles, run |-> noopCalls + 1]
           ELSE /\ UNCHANGED noopCalls
                /\ noopRet' = NoExit
        /\ noopEv' = [type |-> "clear", key |-> k]
        /\ UNCHANGED <<noopExecs, noopRan>>

(***************************************************************************)
(* Money (domain/shared/money.ts).  An amount is a JavaScript number; the  *)
(* model writes it in hundredths, so 0.03 is 3.  Sums and differences are  *)
(* computed in binary floating point, and the Money constructor rejects a  *)
(* result n for which n * 100 is not an integer.                           *)
(***************************************************************************)
Currencies == {"NZD", "USD"}

\* The currency of the mapped account: no definition tells one currency
\* from another, and updateBalance brings the other one in.
MappedCurrencies == {"NZD"}

Cents == -MaxCents .. MaxCents

MoneyOf(n, c) == [amount |-> n, currency |-> c, scale |-> 2]

MoneyValues == {MoneyOf(n, c) : n \in Cents, c \in Currencies}

\* null, where the code has Money | null
NoMoney == [amount |-> 0, currency |-> "null", scale |-> 2]

\* The pairs <<a, b>>, a <= b, of amounts between -0.05 and 0.05 whose
\* binary64 sum a + b fails Number.isInteger(n * 100): 0.03 + 0.04 is
\* 0.07 and 0.07 * 100 is 7.000000000000001.  Every other sum in that range
\* is the number nearest to the decimal sum.
InexactSums ==
    { <<-5, -2>>, <<-5, -1>>, <<-5, 2>>, <<-5, 3>>, <<-5, 4>>, <<-4, -3>>,
      <<-4, 3>>, <<-4, 5>>, <<-3, 1>>, <<-3, 2>>, <<-3, 4>>, <<-3, 5>>,
      <<-2, 3>>, <<-2, 5>>, <<-1, 3>>, <<1, 5>>, <<2, 5>>, <<3, 4>> }

\* Schema.filter((n) => Number.isFinite(n) && Number.isInteger(n * 100)),
\* applied to n = a + b
sumIsValidAmount(a, b) ==
    (IF a <= b THEN <<a, b>> ELSE <<b, a>>) \notin InexactSums

MoneyOk(m) == [ok |-> TRUE, value |-> m]

MoneyFail(e) == [ok |-> FALSE, error |-> e]

add_CheckingCurrency(a, b) ==
    IF a.currency # b.currency
    THEN MoneyFail([_tag |-> "CurrencyMismatch"])
    ELSE IF sumIsValidAmount(a.amount, b.amount)
    THEN MoneyOk(MoneyOf(a.amount + b.amount, a.currency))
    ELSE MoneyFail([_tag |-> "InvalidAmount"])

add(a, b) ==
    IF sumIsValidAmount(a.amount, b.amount)
    THEN MoneyOk(MoneyOf(a.amount + b.amount, a.currency))
    ELSE MoneyFail([_tag |-> "InvalidAmount"])

subtract(a, b) ==
    IF sumIsValidAmount(a.amount, -b.amount)
    THEN MoneyOk(MoneyOf(a.amount - b.amount, a.currency))
    ELSE MoneyFail([_tag |-> "InvalidAmount"])

isNegative(money) == money.amount < 0

ensureNonNegative_Positive(money) ==
    IF money.amount <= 0
    THEN MoneyFail([_tag |-> "NegativeAmount", amount |-> money.amount])
    ELSE MoneyOk(money)

ensureNonNegative(money) ==
    IF isNegative(money)
    THEN MoneyFail([_tag |-> "NegativeAmount", amount |-> money.amount])
    ELSE MoneyOk(money)

(***************************************************************************)
(* The account aggregate (domain/banking/account.ts).  Its operations are  *)
(* pure: each takes an Account and ends with a new Account or with an      *)
(* AccountError.                                                           *)
(***************************************************************************)
AccountStates == {"active", "frozen", "closed"}

AccountKinds ==
    { [type |-> "depository", subtype |-> "checking"],
      [type |-> "depository", subtype |-> "cd"],
      [type |-> "credit", subtype |-> "credit card"],
      [type |-> "loan", subtype |-> "mortgage"],
      [type |-> "investment", subtype |-> "ira"] }

isActive_NotClosed(acc) == acc.state # "closed"

isActive(acc) == acc.state = "active"

isFrozen(acc) == acc.state = "frozen"

isClosed(acc) == acc.state = "closed"

AccountNotActive(acc) ==
    [_tag |-> "AccountNotActive", accountId |-> acc.id,
     currentState |-> acc.state]

InsufficientFunds(acc, available, requested) ==
    [_tag |-> "InsufficientFunds", accountId |-> acc.id,
     available |-> available, requested |-> requested]

NegativeBalanceNotAllowed(acc) ==
    [_tag |-> "NegativeBalanceNotAllowed", accountId |-> acc.id,
     accountType |-> acc.type]

OperationNotSupported(acc, operation, reason) ==
    [_tag |-> "OperationNotSupported", accountId |-> acc.id,
     operation |-> operation, reason |-> reason]

AccountOk(acc) == [ok |-> TRUE, account |-> acc]

AccountFail(e) == [ok |-> FALSE, error |-> e]

supportsWithdrawals_AnyDepository(acc) == acc.type = "depository"

supportsWithdrawals(acc) == acc.type = "depository" /\ acc.subtype # "cd"

canHaveNegativeBalance_Any(acc) == TRUE

canHaveNegativeBalance(acc) == acc.type = "credit" \/ acc.type = "loan"

\* Mutant of updateBalance: availableBalance follows the new balance.
updateBalance_SyncsAvailable(acc, newBalance, t) ==
    IF ~isActive(acc) THEN AccountFail(AccountNotActive(acc))
    ELSE IF ~canHaveNegativeBalance(acc) /\ isNegative(newBalance)
    THEN AccountFail(NegativeBalanceNotAllowed(acc))
    ELSE AccountOk([acc EXCEPT !.currentBalance = newBalance,
                               !.availableBalance =
                                   IF @ = NoMoney THEN @ ELSE newBalance,
                               !.updatedAt = t,
                               !.lastSyncedAt = t])

\* t is Date.now()
updateBalance(acc, newBalance, t) ==
    IF ~isActive(acc) THEN AccountFail(AccountNotActive(acc))
    ELSE IF ~canHaveNegativeBalance(acc) /\ isNegative(newBalance)
    THEN AccountFail(NegativeBalanceNotAllowed(acc))
    ELSE AccountOk([acc EXCEPT !.currentBalance = newBalance,
                               !.updatedAt = t,
                               !.lastSyncedAt = t])

\* Mutant of withdraw: the amount is taken off currentBalance.
withdraw_FromCurrent(acc, amount, t) ==
    IF ~isActive(acc) THEN AccountFail(AccountNotActive(acc))
    ELSE IF ~supportsWithdrawals(acc)
    THEN AccountFail(OperationNotSupported(acc, "withdraw",
             <<acc.type, "/", acc.subtype,
               " accounts do not support withdrawals">>))
    ELSE LET available == IF acc.availableBalance # NoMoney
                          THEN acc.availableBalance
                          ELSE acc.currentBalance
             difference == subtract(available, amount)
             newBalance == IF difference.ok
                           THEN ensureNonNegative(difference.value)
                           ELSE difference
             left == subtract(acc.currentBalance, amount)
         IN  IF ~newBalance.ok \/ ~left.ok
             THEN AccountFail(InsufficientFunds(acc, available, amount))
             ELSE updateBalance(acc, left.value, t)

withdraw(acc, amount, t) ==
    IF ~isActive(acc) THEN AccountFail(AccountNotActive(acc))
    ELSE IF ~supportsWithdrawals(acc)
    THEN AccountFail(OperationNotSupported(acc, "withdraw",
             <<acc.type, "/", acc.subtype,
               " accounts do not support withdrawals">>))
    ELSE LET available == IF acc.availableBalance # NoMoney
                          THEN acc.availableBalance
                          ELSE acc.currentBalance
             difference == subtract(available, amount)
             newBalance == IF difference.ok
                           THEN ensureNonNegative(difference.value)
                           ELSE difference
         IN  IF ~newBalance.ok
             THEN AccountFail(InsufficientFunds(acc, available, amount))
             ELSE updateBalance(acc, newBalance.value, t)

deposit(acc, amount, t) ==
    IF ~isActive(acc) THEN AccountFail(AccountNotActive(acc))
    ELSE LET newBalance == add(acc.currentBalance, amount) IN
             IF ~newBalance.ok
             THEN AccountFail(OperationNotSupported(acc, "deposit",
                      <<"Failed to add amounts">>))
             ELSE updateBalance(acc, newBalance.value, t)

freeze_Always(acc, t) ==
    AccountOk([acc EXCEPT !.state = "frozen", !.updatedAt = t])

freeze(acc, t) ==
    IF acc.state = "active"
    THEN AccountOk([acc EXCEPT !.state = "frozen", !.updatedAt = t])
    ELSE AccountFail(OperationNotSupported(acc, "freeze",
             <<"Cannot freeze account in ", acc.state, " state">>))

unfreeze(acc, t) ==
    IF acc.state = "frozen"
    THEN AccountOk([acc EXCEPT !.state = "active", !.updatedAt = t])
    ELSE AccountFail(OperationNotSupported(acc, "unfreeze",
             <<"Cannot unfreeze account in ", acc.state, " state">>))

close_Always(acc, t) ==
    AccountOk([acc EXCEPT !.state = "closed", !.updatedAt = t])

close(acc, t) ==
    IF acc.state # "closed"
    THEN AccountOk([acc EXCEPT !.state = "closed", !.updatedAt = t])
    ELSE AccountFail(OperationNotSupported(acc, "close",
             <<"Account is already closed">>))

\* A function that returns a value, and one that throws instead.
Returns(v) == [threw |-> FALSE, value |-> v]

Throws(e) == [threw |-> TRUE, error |-> e]

\* makeMoney decodes synchronously and throws what Money would fail with.
\* The amount it is given here is the difference a - b of two amounts.
makeMoneyOfDifference(a, b, c) ==
    IF sumIsValidAmount(a, -b)
    THEN Returns(MoneyOf(a - b, c))
    ELSE Throws([_tag |-> "ParseError"])

getSpendableBalance(acc) ==
    CASE acc.type = "depository" ->
             Returns(IF acc.availableBalance # NoMoney
                     THEN acc.availableBalance
                     ELSE acc.currentBalance)
      [] acc.type = "credit" ->
             IF acc.creditLimit = NoMoney
             THEN Returns(NoMoney)
             ELSE IF acc.creditLimit.amount - acc.currentBalance.amount >= 0
                  THEN makeMoneyOfDifference(acc.creditLimit.amount,
                                             acc.currentBalance.amount,
                                             acc.creditLimit.currency)
                  ELSE Returns(MoneyOf(0, acc.creditLimit.currency))
      [] acc.type \in {"loan", "investment"} -> Returns(NoMoney)

\* The account mapPlaidAccountToDomain builds from an external record
\* (infrastructure/plaid/mappers.ts): active, its balances in one currency.
mappedAccount(kind, c, current, available, limit, syncedAt) ==
    [id |-> "acc-1", state |-> "active",
     type |-> kind.type, subtype |-> kind.subtype,
     currentBalance |-> MoneyOf(current, c),
     availableBalance |-> available,
     creditLimit |-> limit,
     updatedAt |-> syncedAt, lastSyncedAt |-> syncedAt]

NoError == [_tag |-> "None"]

AccountInit ==
    /\ accountNow = 0
    /\ \E kind \in AccountKinds, c \in MappedCurrencies, current \in Cents :
          \E available \in {NoMoney} \cup {MoneyOf(n, c) : n \in Cents},
             limit \in IF kind.type = "credit"
                       THEN {NoMoney, MoneyOf(MaxCents, c)}
                       ELSE {NoMoney} :
             account = mappedAccount(kind, c, current, available, limit, 0)
    /\ out = [op |-> "init", ok |-> TRUE, error |-> NoError]

\* An account nobody operates on.
AccountIdle ==
    /\ accountNow = 0
    /\ account = mappedAccount([type |-> "depository", subtype |-> "checking"],
                               "NZD", 0, NoMoney, NoMoney, 0)
    /\ out = [op |-> "init", ok |-> TRUE, error |-> NoError]

\* The caller applies an operation and keeps the account it succeeded with.
Apply(op, result) ==
    /\ result.ok => result.account.currentBalance.amount \in Cents
    /\ account' = IF result.ok THEN result.account ELSE account
    /\ out' = [op |-> op, ok |-> result.ok,
               error |-> IF result.ok THEN NoError ELSE result.error]
    /\ UNCHANGED accountNow

UpdateBalance(newBalance) ==
    Apply("updateBalance", updateBalance(account, newBalance, accountNow))

Withdraw(amount) == Apply("withdraw", withdraw(account, amount, accountNow))

Deposit(amount) == Apply("deposit", deposit(account, amount, accountNow))

Freeze == Apply("freeze", freeze(account, accountNow))

Unfreeze == Apply("unfreeze", unfreeze(account, accountNow))

Close == Apply("close", close(account, accountNow))

\* The caller asks what the account can spend; the account is not changed.
GetSpendableBalance ==
    LET result == getSpendableBalance(account) IN
        /\ out' = IF result.threw
                  THEN [op |-> "getSpendableBalance", ok |-> FALSE,
                        error |-> result.error]
                  ELSE [op |-> "getSpendableBalance", ok |-> TRUE,
                        error |-> NoError, value |-> result.value]
        /\ UNCHANGED <<account, accountNow>>

AccountTick ==
    /\ accountNow + 1 \in AccountTimes
    /\ accountNow' = accountNow + 1
    /\ out' = [op |-> "tick", ok |-> TRUE, error |-> NoError]
    /\ UNCHANGED account

(***************************************************************************)
(* The mapper (infrastructure/plaid/mappers.ts): from the records of the   *)
(* external banking API to domain values.  A field of such a record is a   *)
(* string, a number, null or undefined.  A number is written in            *)
(* thousandths, so 42.126 is 42126 and 0.025 is 25; NaN is a number too.   *)
(***************************************************************************)
Null == [kind |-> "null"]

Undefined == [kind |-> "undefined"]

Str(s) == [kind |-> "string", value |-> s]

Num(mills) == [kind |-> "number", mills |-> mills]

NaN == [kind |-> "NaN"]

\* value === null || value === undefined
isNullish(v) == v.kind \in {"null", "undefined"}

\* a ?? b
orElse_PreferSecond(a, b) == IF isNullish(b) THEN a ELSE b

orElse(a, b) == IF isNullish(a) THEN b ELSE a

\* The amounts x between -0.075 and 0.075 for which the binary64 product
\* x * 100 lies below the decimal one and on the other side of a tie:
\* -0.035 * 100 is -3.5000000000000004.
ProductBelowTie == {-35}

\* Math.round(amount * 100) for an amount between -0.075 and 0.075:
\* Math.round rounds to the nearest integer and a tie towards +Infinity.
mathRoundTimes100(mills) ==
    IF mills \in ProductBelowTie
    THEN (mills + 5) \div 10 - 1
    ELSE (mills + 5) \div 10

\* Math.round(amount * 100) / 100; NaN stays NaN.
roundedAmount(amount) ==
    IF amount.kind = "number"
    THEN Num(10 * mathRoundTimes100(amount.mills))
    ELSE amount

\* The whole numbers of cents k between -0.75 and 0.75 for which the
\* binary64 product (k / 100) * 100 is not an integer: 0.07 * 100 is
\* 7.000000000000001.
InexactCents == {-7, 7}

\* Schema.filter((n) => Number.isFinite(n) && Number.isInteger(n * 100))
isValidAmount(n) ==
    /\ n.kind = "number"
    /\ n.mills % 10 = 0
    /\ (n.mills \div 10) \notin InexactCents

\* Money(amount, currency): decodes, and fails where makeMoney throws.
Money_Rounding(n, c) ==
    IF n.kind = "number" /\ (n.mills \div 10) \notin InexactCents
    THEN MoneyOk(MoneyOf(mathRoundTimes100(n.mills), c))
    ELSE MoneyFail([_tag |-> "ParseError"])

Money(n, c) ==
    IF isValidAmount(n)
    THEN MoneyOk(MoneyOf(n.mills \div 10, c))
    ELSE MoneyFail([_tag |-> "ParseError"])

SUPPORTED_CURRENCIES == {"NZD", "USD", "AUD", "EUR", "GBP", "BTC", "ETH"}

SUPPORTED_ACCOUNT_TYPES == {"depository", "credit", "loan", "investment"}

SUPPORTED_ACCOUNT_SUBTYPES ==
    {"checking", "savings", "hsa", "cd", "money market", "cash management",
     "credit card", "mortgage", "student", "ira", "401k"}

isCurrency_AnyString(v) == v.kind = "string"

isCurrency(v) == v.kind = "string" /\ v.value \in SUPPORTED_CURRENCIES

isAccountType(v) == v.kind = "string" /\ v.value \in SUPPORTED_ACCOUNT_TYPES

isAccountSubtype(v) ==
    v.kind = "string" /\ v.value \in SUPPORTED_ACCOUNT_SUBTYPES

defaultSubtypeForType(type) ==
    CASE type = "depository" -> "checking"
      [] type = "credit" -> "credit card"
      [] type = "loan" -> "mortgage"
      [] type = "investment" -> "ira"
      [] OTHER -> "checking"

\* AccountId(id): Schema.decodeUnknownSync of a string of length at least
\* 1; it throws on anything else.
AccountId(id) ==
    IF id.kind = "string" /\ id.value # ""
    THEN Returns(id.value)
    ELSE Throws([_tag |-> "ParseError"])

TransactionId(id) ==
    IF id.kind = "string" /\ id.value # ""
    THEN Returns(id.value)
    ELSE Throws([_tag |-> "ParseError"])

\* How a mapping ends: an Effect that succeeds, an Effect that fails with a
\* tagged error, or (Throws) no Effect at all.  A throw inside a callback of
\* Effect.map makes the Effect die with a defect, which is no tagged error
\* either.
Succeed(v) == [threw |-> FALSE, ok |-> TRUE, value |-> v]

Fail(e) == [threw |-> FALSE, ok |-> FALSE, error |-> e]

Dies(e) == [threw |-> TRUE, defect |-> e]

parseRequiredBalance(plaidAccount, amount, field, currency) ==
    IF isNullish(amount)
    THEN Fail([_tag |-> "AccountBalanceMissing",
               accountId |-> plaidAccount.account_id, field |-> field])
    ELSE LET money == Money(roundedAmount(amount), currency) IN
             IF money.ok
             THEN Succeed(money.value)
             ELSE Fail([_tag |-> "AccountBalanceInvalid",
                        accountId |-> plaidAccount.account_id,
                        field |-> field, message |-> money.error])

parseOptionalBalance_Required(plaidAccount, amount, field, currency) ==
    IF isNullish(amount)
    THEN Fail([_tag |-> "AccountBalanceMissing",
               accountId |-> plaidAccount.account_id, field |-> field])
    ELSE LET money == Money(roundedAmount(amount), currency) IN
             IF money.ok
             THEN Succeed(money.value)
             ELSE Fail([_tag |-> "AccountBalanceInvalid",
                        accountId |-> plaidAccount.account_id,
                        field |-> field, message |-> money.error])

parseOptionalBalance(plaidAccount, amount, field, currency) ==
    IF isNullish(amount)
    THEN Succeed(NoMoney)
    ELSE LET money == Money(roundedAmount(amount), currency) IN
             IF money.ok
             THEN Succeed(money.value)
             ELSE Fail([_tag |-> "AccountBalanceInvalid",
                        accountId |-> plaidAccount.account_id,
                        field |-> field, message |-> money.error])

\* dateNow is Date.now()
mapPlaidAccountToDomain(plaidAccount, context, dateNow) ==
    LET accountId == AccountId(plaidAccount.account_id)
        currencyLiteral == orElse(plaidAccount.balances.iso_currency_code,
                                  plaidAccount.balances.unofficial_currency_code)
        currency == currencyLiteral.value
        accountType == plaidAccount.type.value
        subtype == IF isAccountSubtype(plaidAccount.subtype)
                   THEN plaidAccount.subtype.value
                   ELSE defaultSubtypeForType(accountType)
        syncedAt == IF isNullish(context.syncedAt)
                    THEN dateNow
                    ELSE context.syncedAt.value
        currentBalance ==
            parseRequiredBalance(plaidAccount, plaidAccount.balances.current,
                                 "current", currency)
        availableBalance ==
            parseOptionalBalance(plaidAccount, plaidAccount.balances.available,
                                 "available", currency)
        creditLimit ==
            parseOptionalBalance(plaidAccount, plaidAccount.balances.limit,
                                 "limit", currency)
    IN  IF accountId.threw THEN accountId
        ELSE IF ~isAccountType(plaidAccount.type)
        THEN Fail([_tag |-> "AccountUnsupportedType",
                   accountId |-> plaidAccount.account_id,
                   type |-> plaidAccount.type])
        ELSE IF isNullish(currencyLiteral)
        THEN Fail([_tag |-> "AccountMissingCurrency",
                   accountId |-> plaidAccount.account_id])
        ELSE IF ~isCurrency(currencyLiteral)
        THEN Fail([_tag |-> "AccountUnsupportedCurrency",
                   accountId |-> plaidAccount.account_id,
                   currency |-> currencyLiteral])
        ELSE IF ~currentBalance.ok THEN currentBalance
        ELSE IF ~availableBalance.ok THEN availableBalance
        ELSE IF ~creditLimit.ok THEN creditLimit
        ELSE Succeed([id |-> accountId.value,
                      state |-> "active",
                      type |-> accountType,
                      subtype |-> subtype,
                      currentBalance |-> currentBalance.value,
                      availableBalance |-> availableBalance.value,
                      creditLimit |-> creditLimit.value,
                      updatedAt |-> syncedAt,
                      lastSyncedAt |-> syncedAt])

mapPlaidTransactionToDomain(plaidTransaction) ==
    LET currencyLiteral == orElse(plaidTransaction.iso_currency_code,
                                  plaidTransaction.unofficial_currency_code)
        amount == Money(roundedAmount(plaidTransaction.amount),
                        currencyLiteral.value)
        id == TransactionId(plaidTransaction.transaction_id)
        accountId == AccountId(plaidTransaction.account_id)
    IN  IF isNullish(currencyLiteral)
        THEN Fail([_tag |-> "TransactionMissingCurrency",
                   transactionId |-> plaidTransaction.transaction_id])
        ELSE IF ~isCurrency(currencyLiteral)
        THEN Fail([_tag |-> "TransactionUnsupportedCurrency",
                   transactionId |-> plaidTransaction.transaction_id,
                   currency |-> currencyLiteral])
        ELSE IF ~amount.ok
        THEN Fail([_tag |-> "TransactionInvalidAmount",
                   transactionId |-> plaidTransaction.transaction_id,
                   message |-> amount.error])
        ELSE IF id.threw THEN Dies(id.error)
        ELSE IF accountId.threw THEN Dies(accountId.error)
        ELSE Succeed([id |-> id.value,
                      accountId |-> accountId.value,
                      amount |-> amount.value])

\* The records the mapper is given.  Only the fields the mapper decides on
\* are kept; name, mask and the like are copied as they are.
RawAccounts ==
    [account_id : {Str("acc-1"), Str("")},
     type : {Str("depository"), Str("credit"), Str("other"), Null},
     subtype : {Str("cd"), Str("unknown")},
     balances : [iso_currency_code : {Null, Str("NZD"), Str("JPY")},
                 unofficial_currency_code : {Undefined, Str("USD"), Str("XBT")},
                 current : {Null, NaN, Num(-25), Num(26), Num(70)},
                 available : {Undefined, NaN, Num(-5), Num(24)},
                 limit : {Null, NaN, Num(35)}]]

\* context.syncedAt, a time or undefined
Contexts == {[syncedAt |-> Undefined], [syncedAt |-> [kind |-> "number", value |-> 1]]}

RawTransactions ==
    [transaction_id : {Str("txn-1"), Str("")},
     account_id : {Str("acc-1"), Str("")},
     iso_currency_code : {Null, Str("NZD"), Str("JPY")},
     unofficial_currency_code : {Undefined, Str("USD"), Str("XBT")},
     amount : {NaN} \cup {Num(m) : m \in -MaxMills .. MaxMills}]

NotMapped == [kind |-> "none"]

MapperInit ==
    /\ raw \in [kind : {"account"}, record : RawAccounts, context : Contexts]
               \cup [kind : {"transaction"}, record : RawTransactions]
    /\ mapped = NotMapped

\* A mapper nobody calls.
MapperIdle ==
    /\ raw = [kind |-> "transaction",
              record |-> [transaction_id |-> Str("txn-1"),
                          account_id |-> Str("acc-1"),
                          iso_currency_code |-> Str("NZD"),
                          unofficial_currency_code |-> Undefined,
                          amount |-> Num(0)]]
    /\ mapped = NotMapped

MapAccount(dateNow) ==
    /\ raw.kind = "account"
    /\ mapped = NotMapped
    /\ mapped' = mapPlaidAccountToDomain(raw.record, raw.context, dateNow)
    /\ UNCHANGED raw

MapTransaction ==
    /\ raw.kind = "transaction"
    /\ mapped = NotMapped
    /\ mapped' = mapPlaidTransactionToDomain(raw.record)
    /\ UNCHANGED raw

(***************************************************************************)
(* The money operations called on their own.  A factor is a number written *)
(* in thousandths like every number of a record, and the factors drawn are *)
(* whole numbers of tenths, so that a product is a whole number of         *)
(* thousandths.  Every product of an amount between -0.04 and 0.04 and a   *)
(* factor drawn here is, in binary64, accepted by the Money constructor    *)
(* exactly when the decimal product is.                                    *)
(***************************************************************************)
Infinity == [kind |-> "Infinity"]

\* money.amount * factor
product(money, factor) ==
    IF factor.kind = "number"
    THEN Num(money.amount * (factor.mills \div 100))
    ELSE NaN

multiply(money, factor) ==
    LET result == Money(product(money, factor), money.currency) IN
        IF result.ok
        THEN result
        ELSE MoneyFail([_tag |-> "InvalidAmount"])

Amounts == {NaN, Infinity} \cup {Num(m) : m \in -MaxMills .. MaxMills}

Factors == {NaN} \cup {Num(f) : f \in {-1000, 0, 500, 1000, 1500, 2500}}

NotRun == [kind |-> "none"]

MoneyInit ==
    /\ moneyArgs \in [op : {"Money"}, amount : Amounts, currency : Currencies]
                     \cup [op : {"add", "subtract"},
                           a : MoneyValues, b : MoneyValues]
                     \cup [op : {"multiply"},
                           money : MoneyValues, factor : Factors]
    /\ moneyRet = NotRun

\* No money operation called on its own.
MoneyIdle ==
    /\ moneyArgs = [op |-> "Money", amount |-> Num(0), currency |-> "NZD"]
    /\ moneyRet = NotRun

Construct ==
    /\ moneyArgs.op = "Money"
    /\ moneyRet = NotRun
    /\ moneyRet' = Money(moneyArgs.amount, moneyArgs.currency)
    /\ UNCHANGED moneyArgs

Add ==
    /\ moneyArgs.op = "add"
    /\ moneyRet = NotRun
    /\ moneyRet' = add(moneyArgs.a, moneyArgs.b)
    /\ UNCHANGED moneyArgs

Subtract ==
    /\ moneyArgs.op = "subtract"
    /\ moneyRet = NotRun
    /\ moneyRet' = subtract(moneyArgs.a, moneyArgs.b)
    /\ UNCHANGED moneyArgs

Multiply ==
    /\ moneyArgs.op = "multiply"
    /\ moneyRet = NotRun
    /\ moneyRet' = multiply(moneyArgs.money, moneyArgs.factor)
    /\ UNCHANGED moneyArgs

(***************************************************************************)
(* Spec: one cache instance whose wrapped operations are asynchronous, so  *)
(* calls interleave.  w records, for the key `watch`:                      *)
(*   fresh  "clean"/"raced" when clear(watch) returned and no              *)
(*          execute(watch) started since; raced when an execute(watch)     *)
(*          was in flight at the clear; "restarted" once the execute after *)
(*          a clean clear has started; "no" while never cleared            *)
(*   fail   the last failure exit an execute(watch) returned and the       *)
(*          expiresAt it was stored with, until clear(watch)               *)
(***************************************************************************)
\* The clock is past the expiresAt an entry was stored with.
pastExpiry(item, t) == item.expiresAt # NoExpiry /\ t > item.expiresAt

hasPast(s, k, t) == storeHas(s, k) /\ pastExpiry(storeGet(s, k), t)

NoFail == [exit |-> NoExit, expiresAt |-> NoExpiry]

wInit == [fresh |-> "no", fail |-> NoFail]

wStart(k) ==
    IF k # watch THEN w
    ELSE [w EXCEPT !.fresh = IF @ = "clean" THEN "restarted"
                             ELSE IF @ = "raced" THEN "no" ELSE @]

wSettle(f, res) ==
    IF f.key # watch THEN w
    ELSE [w EXCEPT !.fail =
            IF res = "Failure"
            THEN [exit |-> [tag |-> res, run |-> f.run],
                  expiresAt |-> newExpiry(ttlMs, now)]
            ELSE @]

wClear(k) ==
    IF k # watch THEN w
    ELSE [fresh |-> IF \E f \in inflight : f.key = k THEN "raced" ELSE "clean",
          fail |-> NoFail]

(***************************************************************************)
(* SpecSeq: one cache instance whose wrapped operations are synchronous,   *)
(* so calls never overlap.  prevCall and lastCall are the last two execute *)
(* calls that returned: key, exit returned, whether the operation was run, *)
(* the clock at the lookup, and the expiresAt of the entry replayed or     *)
(* stored.  A clear of lastCall's key forgets both; a clear of another key *)
(* leaves them.                                                            *)
(***************************************************************************)
NoCall == [key |-> "", exit |-> NoExit, ran |-> FALSE, at |-> 0,
           expiresAt |-> NoExpiry]

isCall(c) == c.exit # NoExit

(***************************************************************************)
(* SpecKey: synchronous operations; h records, for the key `watch`:        *)
(*   runs     operations run by execute(watch, ...), counted up to 2       *)
(*   cleared  clear(watch) was called                                      *)
(*   elapsed  the clock passed the expiresAt of a stored entry of watch    *)
(*   evicted  an execute call deleted the entry of watch although its      *)
(*            expiresAt had not passed when the call began                 *)
(***************************************************************************)
hInit == [runs |-> 0, cleared |-> FALSE, elapsed |-> FALSE, evicted |-> FALSE]

cap2(n) == IF n > 2 THEN 2 ELSE n

\* h after a step of kind `type` on key k that took the store from s to s2
\* and the clock from t to t2.
hStep(type, k, s, t, s2, t2) ==
    [runs    |-> IF type = "run" /\ k = watch THEN cap2(h.runs + 1) ELSE h.runs,
     cleared |-> h.cleared \/ (type = "clear" /\ k = watch),
     elapsed |-> h.elapsed \/ hasPast(s, watch, t2) \/ hasPast(s2, watch, t2),
     evicted |-> h.evicted \/ (/\ type \in {"hit", "run"}
                                /\ storeHas(s, watch)
                                /\ ~hasPast(s, watch, t)
                                /\ ~storeHas(s2, watch))]

HistInit ==
    /\ ev = Event("init", "", FALSE)
    /\ w = wInit
    /\ h = hInit
    /\ prevCall = NoCall
    /\ lastCall = NoCall

Init ==
    /\ CacheInit
    /\ watch \in WatchKeys
    /\ HistInit
    /\ NoOpInit
    /\ AccountIdle
    /\ MapperIdle
    /\ MoneyIdle

Next ==
    \/ \E k \in Keys, d \in ClockDrift :
          /\ ExecuteHit(k, d)
          /\ ev' = Event("hit", k, hasPast(store, k, now + d))
          /\ w' = wStart(k)
          /\ UNCHANGED <<noopVars, accountVars, mapperVars, moneyVars, watch, h, prevCall, lastCall>>
    \/ \E k \in Keys, d \in ClockDrift :
          /\ calls < MaxRuns
          /\ ExecuteMiss(k, d)
          /\ ev' = Event("miss", k, hasPast(store, k, now + d))
          /\ w' = wStart(k)
          /\ UNCHANGED <<noopVars, accountVars, mapperVars, moneyVars, watch, h, prevCall, lastCall>>
    \/ \E f \in inflight, res \in Settlements :
          /\ ExecuteSettle(f, res)
          /\ ev' = Event("settle", f.key, FALSE)
          /\ w' = wSettle(f, res)
          /\ UNCHANGED <<noopVars, accountVars, mapperVars, moneyVars, watch, h, prevCall, lastCall>>
    \/ \E k \in Keys :
          /\ Clear(k)
          /\ ev' = Event("clear", k, FALSE)
          /\ w' = wClear(k)
          /\ UNCHANGED <<noopVars, accountVars, mapperVars, moneyVars, watch, h, prevCall, lastCall>>
    \/ /\ Tick
       /\ ev' = Event("tick", "", FALSE)
       /\ UNCHANGED <<noopVars, accountVars, mapperVars, moneyVars, watch, w, h, prevCall, lastCall>>

Spec == Init /\ [][Next]_vars

InitSeq ==
    /\ CacheInit
    /\ watch = ""
    /\ HistInit
    /\ NoOpInit
    /\ AccountIdle
    /\ MapperIdle
    /\ MoneyIdle

NextSeq ==
    \/ \E k \in Keys, d \in ClockDrift :
          /\ ExecuteHit(k, d)
          /\ prevCall' = lastCall
          /\ lastCall' = [key |-> k, exit |-> ret', ran |-> FALSE,
                          at |-> now + d,
                          expiresAt |-> storeGet(store', k).expiresAt]
          /\ UNCHANGED <<noopVars, accountVars, mapperVars, moneyVars, ev, watch, w, h>>
    \/ \E k \in Keys, d \in ClockDrift, d2 \in ClockDrift, res \in Settlements :
          /\ calls < MaxSeqRuns
          /\ ExecuteSync(k, d, d2, res)
          /\ prevCall' = lastCall
          /\ lastCall' = [key |-> k, exit |-> ret', ran |-> TRUE,
                          at |-> now + d,
                          expiresAt |-> storeGet(store', k).expiresAt]
          /\ UNCHANGED <<noopVars, accountVars, mapperVars, moneyVars, ev, watch, w, h>>
    \/ \E k \in Keys :
          /\ Clear(k)
          /\ IF isCall(lastCall) /\ lastCall.key = k
             THEN prevCall' = NoCall /\ lastCall' = NoCall
             ELSE UNCHANGED <<noopVars, accountVars, mapperVars, moneyVars, prevCall, lastCall>>
          /\ UNCHANGED <<noopVars, accountVars, mapperVars, moneyVars, ev, watch, w, h>>
    \/ Tick /\ UNCHANGED <<noopVars, accountVars, mapperVars, moneyVars, ev, watch, w, h, prevCall, lastCall>>

SpecSeq == InitSeq /\ [][NextSeq]_vars

InitKey ==
    /\ CacheInit
    /\ watch \in WatchKeys
    /\ HistInit
    /\ NoOpInit
    /\ AccountIdle
    /\ MapperIdle
    /\ MoneyIdle

NextKey ==
    \/ \E k \in Keys, d \in ClockDrift :
          /\ ExecuteHit(k, d)
          /\ h' = hStep("hit", k, store, now, store', now')
          /\ UNCHANGED <<noopVars, accountVars, mapperVars, moneyVars, ev, watch, w, prevCall, lastCall>>
    \/ \E k \in Keys, d \in ClockDrift, d2 \in ClockDrift, res \in Settlements :
          /\ calls < MaxKeyRuns
          /\ ExecuteSync(k, d, d2, res)
          /\ h' = hStep("run", k, store, now, store', now')
          /\ UNCHANGED <<noopVars, accountVars, mapperVars, moneyVars, ev, watch, w, prevCall, lastCall>>
    \/ \E k \in Keys :
          /\ Clear(k)
          /\ h' = hStep("clear", k, store, now, store', now')
          /\ UNCHANGED <<noopVars, accountVars, mapperVars, moneyVars, ev, watch, w, prevCall, lastCall>>
    \/ /\ Tick
       /\ h' = hStep("tick", "", store, now, store', now')
       /\ UNCHANGED <<noopVars, accountVars, mapperVars, moneyVars, ev, watch, w, prevCall, lastCall>>

SpecKey == InitKey /\ [][NextKey]_vars

(***************************************************************************)
(* SpecNoOp: callers of the no-op layer.                                   *)
(***************************************************************************)
InitNoOp ==
    /\ NoOpInit
    /\ CacheIdle
    /\ watch = ""
    /\ HistInit
    /\ AccountIdle
    /\ MapperIdle
    /\ MoneyIdle

NextNoOp ==
    \/ \E k \in Keys, res \in Settlements :
          /\ NoOpExecute(k, res)
          /\ UNCHANGED <<cacheVars, histVars, accountVars, mapperVars, moneyVars>>
    \/ \E k \in Keys :
          /\ NoOpClear(k)
          /\ UNCHANGED <<cacheVars, histVars, accountVars, mapperVars, moneyVars>>

SpecNoOp == InitNoOp /\ [][NextNoOp]_vars

(***************************************************************************)
(* SpecAccount: one account and the operations its holder applies.         *)
(***************************************************************************)
InitAccount ==
    /\ AccountInit
    /\ CacheIdle
    /\ watch = ""
    /\ HistInit
    /\ NoOpInit
    /\ MapperIdle
    /\ MoneyIdle

NextAccount ==
    \/ \E newBalance \in MoneyValues :
          UpdateBalance(newBalance) /\ UNCHANGED <<cacheVars, histVars, noopVars, mapperVars, moneyVars>>
    \/ \E amount \in MoneyValues :
          Withdraw(amount) /\ UNCHANGED <<cacheVars, histVars, noopVars, mapperVars, moneyVars>>
    \/ \E amount \in MoneyValues :
          Deposit(amount) /\ UNCHANGED <<cacheVars, histVars, noopVars, mapperVars, moneyVars>>
    \/ Freeze /\ UNCHANGED <<cacheVars, histVars, noopVars, mapperVars, moneyVars>>
    \/ Unfreeze /\ UNCHANGED <<cacheVars, histVars, noopVars, mapperVars, moneyVars>>
    \/ Close /\ UNCHANGED <<cacheVars, histVars, noopVars, mapperVars, moneyVars>>
    \/ GetSpendableBalance /\ UNCHANGED <<cacheVars, histVars, noopVars, mapperVars, moneyVars>>
    \/ AccountTick /\ UNCHANGED <<cacheVars, histVars, noopVars, mapperVars, moneyVars>>

SpecAccount == InitAccount /\ [][NextAccount]_vars

(***************************************************************************)
(* SpecMapper: one external record and its mapping.                        *)
(***************************************************************************)
InitMapper ==
    /\ MapperInit
    /\ MoneyIdle
    /\ CacheIdle
    /\ watch = ""
    /\ HistInit
    /\ NoOpInit
    /\ AccountIdle

NextMapper ==
    \/ \E dateNow \in AccountTimes :
          MapAccount(dateNow)
            /\ UNCHANGED <<cacheVars, histVars, noopVars, accountVars, moneyVars>>
    \/ MapTransaction
         /\ UNCHANGED <<cacheVars, histVars, noopVars, accountVars, moneyVars>>

SpecMapper == InitMapper /\ [][NextMapper]_vars

(***************************************************************************)
(* SpecMoney: one call of a money operation.                               *)
(***************************************************************************)
InitMoney ==
    /\ MoneyInit
    /\ CacheIdle
    /\ watch = ""
    /\ HistInit
    /\ NoOpInit
    /\ AccountIdle
    /\ MapperIdle

NextMoney ==
    \/ Construct
         /\ UNCHANGED <<cacheVars, histVars, noopVars, accountVars, mapperVars>>
    \/ Add
         /\ UNCHANGED <<cacheVars, histVars, noopVars, accountVars, mapperVars>>
    \/ Subtract
         /\ UNCHANGED <<cacheVars, histVars, noopVars, accountVars, mapperVars>>
    \/ Multiply
         /\ UNCHANGED <<cacheVars, histVars, noopVars, accountVars, mapperVars>>

SpecMoney == InitMoney /\ [][NextMoney]_vars

(***************************************************************************)
(* Properties of the idempotency layer.                                    *)
(***************************************************************************)
isStart(e) == e.type \in {"hit", "miss"}

\* C1: of two execute calls with one key made one after the other, with no
\* clear of that key in between and the second looking the key up before
\* the entry's expiresAt has passed, the second does not run its operation
\* and returns the exit of the first.
C1_SecondCallReplaysFirst ==
    (/\ isCall(prevCall) /\ isCall(lastCall)
     /\ prevCall.key = lastCall.key
     /\ ~pastExpiry(prevCall, lastCall.at))
    => (~lastCall.ran /\ lastCall.exit = prevCall.exit)

\* C1 witness: the first call ran the operation, the second replayed its
\* exit, and the counter stands at one.
C1_Witness ==
    /\ isCall(prevCall) /\ prevCall.ran
    /\ isCall(lastCall) /\ ~lastCall.ran
    /\ prevCall.key = lastCall.key
    /\ lastCall.exit = prevCall.exit
    /\ ret = prevCall.exit
    /\ calls = 1

\* The start of an execute(watch) runs the operation: it is a miss, and the
\* run it starts is the next of the counter.
RunsWatch ==
    /\ ev'.type = "miss"
    /\ calls' = calls + 1
    /\ [key |-> watch, run |-> calls'] \in inflight'

\* A settling execute returns the exit of the run it started itself.
ReturnsOwnExit ==
    ev'.type = "settle" =>
        \E f \in inflight :
            /\ f.key = ev'.key
            /\ ret'.run = f.run
            /\ inflight' = inflight \ {f}

\* C2 as stated: after clear(key) has returned, the next execute(key, op)
\* runs op and returns op's own exit.
C2_Original ==
    [][/\ (w.fresh \in {"clean", "raced"} /\ isStart(ev') /\ ev'.key = watch)
          => RunsWatch
       /\ ReturnsOwnExit]_vars

\* C2 amended: after a clear(key) that returned while no execute(key) was
\* in flight, the next execute(key, op) runs op and returns op's own exit.
C2_ClearResets ==
    [][/\ (w.fresh = "clean" /\ isStart(ev') /\ ev'.key = watch)
          => RunsWatch
       /\ ReturnsOwnExit]_vars

\* C2 witness: execute -> 1, clear, execute -> 2.
C2_Witness ==
    /\ w.fresh = "restarted"
    /\ ev.type = "settle" /\ ev.key = watch
    /\ ret.run = 2 /\ calls = 2

\* A settled execute has stored the exit it returns, failure or success.
StoresExit ==
    ev'.type = "settle" =>
        /\ storeHas(store', ev'.key)
        /\ storeGet(store', ev'.key).exit = ret'

\* The start of an execute(watch) replays the recorded failure.
ReplaysFailure ==
    /\ ev'.type = "hit"
    /\ ret' = w.fail.exit
    /\ calls' = calls

\* C3 as stated: a failure exit is stored, and every later execute with the
\* key that looks it up before its expiresAt has passed returns that
\* failure without running its operation, until clear(key).
C3_Original ==
    [][/\ StoresExit
       /\ (/\ w.fail # NoFail
           /\ isStart(ev') /\ ev'.key = watch
           /\ ~pastExpiry(w.fail, now'))
          => ReplaysFailure]_vars

\* C3 amended: ... as long as that entry is still stored (not cleared, not
\* evicted to make room, not overwritten by an overlapping execute of the
\* key that settled later).
C3_FailureReplayedWhileStored ==
    [][/\ StoresExit
       /\ (/\ w.fail # NoFail
           /\ storeHas(store, watch)
           /\ storeGet(store, watch).exit = w.fail.exit
           /\ isStart(ev') /\ ev'.key = watch
           /\ ~pastExpiry(w.fail, now'))
          => ReplaysFailure]_vars

\* C3 witness: an execute has just replayed the failure recorded for its key.
C3_Witness ==
    /\ ev.type = "hit" /\ ev.key = watch
    /\ w.fail # NoFail
    /\ ret = w.fail.exit
    /\ ret.tag = "Failure"

\* C4 as stated: with sequential calls, a key that was never cleared and
\* whose entry's TTL never elapsed has had at most one operation run.
C4_Original ==
    (~h.cleared /\ ~h.elapsed) => h.runs <= 1

\* C4 amended: ... never cleared, TTL never elapsed, and entry never
\* evicted to make room for another key.
C4_AtMostOnce ==
    (~h.cleared /\ ~h.elapsed /\ ~h.evicted) => h.runs <= 1

\* C4 witness: the key's operation ran once, operations of other keys ran
\* too, and the key's exit has just been replayed.
C4_Witness ==
    /\ h.runs = 1 /\ ~h.cleared /\ ~h.elapsed /\ ~h.evicted
    /\ calls >= 2
    /\ storeHas(store, watch)
    /\ ret = storeGet(store, watch).exit
    /\ ret.run < calls

\* C5: the store never holds more than maxEntries entries.
C5_SizeWithinCapacity == Len(store) <= maxEntries

\* C6: an execute whose key has a stored entry past its expiresAt runs its
\* operation like one whose key is absent; the execute that settles returns
\* the exit of its own run and stores it with expiresAt = the time of
\* storing + ttl; and the store changes only in steps of execute and clear,
\* never because the clock moved.
C6_ExpiredIsAbsent ==
    [][/\ (isStart(ev') /\ (~storeHas(store, ev'.key)
                              \/ hasPast(store, ev'.key, now')))
          => (/\ ev'.type = "miss"
              /\ calls' = calls + 1
              /\ [key |-> ev'.key, run |-> calls'] \in inflight')
       /\ ReturnsOwnExit
       /\ ev'.type = "settle" =>
             /\ storeHas(store', ev'.key)
             /\ storeGet(store', ev'.key).exit = ret'
             /\ storeGet(store', ev'.key).expiresAt =
                   (IF ttlMs > 0 THEN now' + ttlMs ELSE NoExpiry)
       /\ store' # store => ev'.type \in {"hit", "miss", "settle", "clear"}]_vars

\* C6 witness: an execute found its key's entry past its expiresAt and has
\* started a second run.
C6_Witness ==
    /\ ev.type = "miss" /\ ev.stale
    /\ calls = 2
    /\ [key |-> ev.key, run |-> 2] \in inflight

\* The entries of s whose expiresAt has not passed at t.
unexpired(s, t) == SelectSeq(s, LAMBDA r : ~pastExpiry(r, t))

\* C7: an execute on a key that is not stored, finding the store at
\* capacity, deletes exactly the earliest-inserted entry; and a hit leaves
\* the order of the entries as it was.
C7_EvictsOldestInserted ==
    [][/\ (/\ ev'.type = "miss"
           /\ ~storeHas(store, ev'.key)
           /\ Len(unexpired(store, now)) >= maxEntries
           /\ Len(unexpired(store, now)) > 0)
          => store' = Tail(unexpired(store, now))
       /\ ev'.type = "hit" => store' = unexpired(store, now)]_vars

(***************************************************************************)
(* Properties of the no-op layer.                                          *)
(***************************************************************************)
\* C8: every execute call on the no-op layer runs the operation it was
\* given, whatever the key and whatever calls came before: the call raises
\* the run counter by one and returns the exit of that very run, so for each
\* key the operations run are as many as the execute calls made with it;
\* clear runs nothing, returns nothing and leaves every count as it was.
C8_NoOpAlwaysRuns ==
    [][/\ \A k \in Keys :
             (noopEv'.type = "execute" /\ noopEv'.key = k) =>
                 /\ noopExecs'[k] = noopExecs[k] + 1
                 /\ noopRan'[k] = noopRan[k] + 1
                 /\ noopCalls' = noopCalls + 1
                 /\ noopRet'.tag \in Settlements
                 /\ noopRet'.run = noopCalls'
       /\ noopEv'.type = "clear" =>
             /\ UNCHANGED <<noopCalls, noopExecs, noopRan>>
             /\ noopRet' = NoExit
       /\ \A k \in Keys : noopRan'[k] = noopExecs'[k]]_vars

\* Two execute calls with the key "a" and a clear after them: the operation
\* ran twice.
C8_Witness ==
    /\ noopExecs["a"] = 2
    /\ noopRan["a"] = 2
    /\ noopCalls >= 2
    /\ noopEv = [type |-> "clear", key |-> "a"]

(***************************************************************************)
(* Properties of the account aggregate.                                    *)
(***************************************************************************)
AccountOperations ==
    {"updateBalance", "withdraw", "deposit", "freeze", "unfreeze", "close"}

\* C9: closed is terminal.  On a closed account every operation fails,
\* whatever amount it is given, so a step from a closed account leaves the
\* account as it is, closed; close on a closed account fails with
\* OperationNotSupported.
C9_ClosedIsTerminal ==
    [][account.state = "closed" =>
          /\ account' = account
          /\ out'.op \in AccountOperations => ~out'.ok
          /\ out'.op = "close" => out'.error._tag = "OperationNotSupported"
          /\ ~freeze(account, accountNow).ok
          /\ ~unfreeze(account, accountNow).ok
          /\ ~close(account, accountNow).ok
          /\ \A m \in MoneyValues :
                /\ ~withdraw(account, m, accountNow).ok
                /\ ~deposit(account, m, accountNow).ok
                /\ ~updateBalance(account, m, accountNow).ok]_vars

\* close was applied to a closed account.
C9_Witness ==
    /\ account.state = "closed"
    /\ out.op = "close"
    /\ ~out.ok
    /\ out.error._tag = "OperationNotSupported"

\* C10: the transitions are exactly freeze: active -> frozen, unfreeze:
\* frozen -> active, close: active or frozen -> closed.  freeze on a
\* non-active account, unfreeze on a non-frozen account and close on a
\* closed account fail with OperationNotSupported and leave the account as
\* it is; no other operation changes the state, and a successful withdraw
\* or deposit starts and ends in the state active.
C10_TransitionTable ==
    [][/\ out'.op = "freeze" =>
             IF account.state = "active"
             THEN out'.ok /\ account'.state = "frozen"
             ELSE /\ ~out'.ok /\ account' = account
                  /\ out'.error._tag = "OperationNotSupported"
       /\ out'.op = "unfreeze" =>
             IF account.state = "frozen"
             THEN out'.ok /\ account'.state = "active"
             ELSE /\ ~out'.ok /\ account' = account
                  /\ out'.error._tag = "OperationNotSupported"
       /\ out'.op = "close" =>
             IF account.state \in {"active", "frozen"}
             THEN out'.ok /\ account'.state = "closed"
             ELSE /\ ~out'.ok /\ account' = account
                  /\ out'.error._tag = "OperationNotSupported"
       /\ (out'.op \in {"withdraw", "deposit"} /\ out'.ok) =>
             account.state = "active" /\ account'.state = "active"
       /\ account'.state # account.state =>
             out'.op \in {"freeze", "unfreeze", "close"} /\ out'.ok]_vars

\* An account that was frozen has just been unfrozen.
C10_Witness ==
    /\ out.op = "unfreeze"
    /\ out.ok
    /\ account.state = "active"

\* The amount withdraw checks a request against: availableBalance ?? currentBalance.
availableOf(acc) ==
    IF acc.availableBalance # NoMoney
    THEN acc.availableBalance
    ELSE acc.currentBalance

\* C11: on an active depository account that is not a CD, withdrawing
\* exactly the available amount (availableBalance, or currentBalance when
\* there is none) succeeds and leaves a currentBalance of zero, and
\* withdrawing one cent more fails with InsufficientFunds carrying the
\* account id, the available amount and the requested amount.
C11_WithdrawalBoundary ==
    (isActive(account) /\ supportsWithdrawals(account)) =>
        \A c \in Currencies :
            LET available == availableOf(account)
                exactly   == MoneyOf(available.amount, c)
                oneMore   == MoneyOf(available.amount + 1, c)
                r1        == withdraw(account, exactly, accountNow)
                r2        == withdraw(account, oneMore, accountNow)
            IN  /\ r1.ok
                /\ r1.account.currentBalance.amount = 0
                /\ r1.account.state = "active"
                /\ ~r2.ok
                /\ r2.error = [_tag |-> "InsufficientFunds",
                               accountId |-> account.id,
                               available |-> available,
                               requested |-> oneMore]

\* A withdrawal of one cent more than the available amount has just failed.
C11_Witness ==
    /\ out.op = "withdraw"
    /\ ~out.ok
    /\ out.error._tag = "InsufficientFunds"
    /\ out.error.available = availableOf(account)
    /\ out.error.available.amount > 0
    /\ out.error.requested.amount = out.error.available.amount + 1

\* C12: on an account that is frozen or closed, withdraw, deposit and
\* updateBalance fail with AccountNotActive carrying the account id and the
\* account's state, for every type, subtype, balance and amount: the state
\* is checked before the account type, the funds and the sign of the
\* balance.  So an account in one of these states on which one of the three
\* was just applied shows that failure.
C12_NotActiveFirst ==
    account.state \in {"frozen", "closed"} =>
        LET notActive == [_tag |-> "AccountNotActive",
                          accountId |-> account.id,
                          currentState |-> account.state]
        IN  /\ \A m \in MoneyValues :
                  /\ withdraw(account, m, accountNow)
                        = [ok |-> FALSE, error |-> notActive]
                  /\ deposit(account, m, accountNow)
                        = [ok |-> FALSE, error |-> notActive]
                  /\ updateBalance(account, m, accountNow)
                        = [ok |-> FALSE, error |-> notActive]
            /\ out.op \in {"withdraw", "deposit", "updateBalance"} =>
                  /\ ~out.ok
                  /\ out.error = notActive

\* A withdrawal from a frozen credit card account has just failed with
\* AccountNotActive, not with OperationNotSupported.
C12_Witness ==
    /\ account.state = "frozen"
    /\ account.type = "credit"
    /\ out.op = "withdraw"
    /\ ~out.ok
    /\ out.error._tag = "AccountNotActive"
    /\ out.error.currentState = "frozen"

\* The account types that must not hold a negative balance.
neverNegativeType(acc) == acc.type \notin {"credit", "loan"}

\* C13 as stated: on an account whose type is neither credit nor loan, every
\* updateBalance to a negative balance fails with NegativeBalanceNotAllowed,
\* whatever the state of the account.
C13_Original ==
    neverNegativeType(account) =>
        \A m \in MoneyValues :
            m.amount < 0 =>
                LET r == updateBalance(account, m, accountNow)
                IN  ~r.ok /\ r.error._tag = "NegativeBalanceNotAllowed"

\* C13: on an account whose type is neither credit nor loan, a step from a
\* non-negative currentBalance ends in a non-negative currentBalance,
\* whichever operation it applies and whether it succeeds or not; and while
\* the account is active, every updateBalance to a negative balance fails
\* with NegativeBalanceNotAllowed carrying the account id and type.
C13_NeverNegative ==
    [][neverNegativeType(account) =>
          /\ account.currentBalance.amount >= 0 =>
                account'.currentBalance.amount >= 0
          /\ isActive(account) =>
                \A m \in MoneyValues :
                    m.amount < 0 =>
                        updateBalance(account, m, accountNow)
                          = [ok |-> FALSE,
                             error |-> [_tag |-> "NegativeBalanceNotAllowed",
                                        accountId |-> account.id,
                                        accountType |-> account.type]]
          /\ (out'.op \in AccountOperations /\ out'.ok) =>
                account'.currentBalance.amount >= 0
                  \/ account'.currentBalance = account.currentBalance]_vars

\* An updateBalance to a negative balance has just been refused on an
\* investment account whose balance is positive.
C13_Witness ==
    /\ account.type = "investment"
    /\ account.currentBalance.amount > 0
    /\ out.op = "updateBalance"
    /\ ~out.ok
    /\ out.error._tag = "NegativeBalanceNotAllowed"

\* max(0, n)
atLeastZero(n) == IF n >= 0 THEN n ELSE 0

\* C14: getSpendableBalance returns, for a depository account,
\* availableBalance if there is one and currentBalance otherwise; for a
\* credit account, null when there is no creditLimit and otherwise
\* max(0, creditLimit - currentBalance) in the currency of the credit limit;
\* for a loan or an investment account, null.
C14_SpendableBalance ==
    getSpendableBalance(account) =
        CASE account.type = "depository" -> Returns(availableOf(account))
          [] account.type = "credit" ->
                 IF account.creditLimit = NoMoney
                 THEN Returns(NoMoney)
                 ELSE Returns(MoneyOf(atLeastZero(account.creditLimit.amount
                                          - account.currentBalance.amount),
                                      account.creditLimit.currency))
          [] account.type \in {"loan", "investment"} -> Returns(NoMoney)

(***************************************************************************)
(* Properties of the mapper.                                               *)
(***************************************************************************)
\* C15: the mapping of every account record and of every transaction
\* record, those with an empty account_id or transaction_id included, ends
\* with a domain value or with a tagged error and never throws; and an
\* account record whose type is none of depository, credit, loan and
\* investment (null included) fails with AccountUnsupportedType carrying
\* the account id and the type.
C15_NeverThrows ==
    mapped # NotMapped =>
        /\ ~mapped.threw
        /\ (raw.kind = "account" /\ ~isAccountType(raw.record.type)) =>
              mapped = [threw |-> FALSE, ok |-> FALSE,
                        error |-> [_tag |-> "AccountUnsupportedType",
                                   accountId |-> raw.record.account_id,
                                   type |-> raw.record.type]]

\* The account records whose mapping gets past AccountId(account_id), the
\* first statement of mapPlaidAccountToDomain.
identified(r) == r.account_id.kind = "string" /\ r.account_id.value # ""

\* The currency code the mapping of r goes by, if any.
chosenCurrency(r) ==
    IF ~isNullish(r.iso_currency_code)
    THEN r.iso_currency_code
    ELSE r.unofficial_currency_code

\* A balance that is present and does not round to an amount Money accepts.
invalidBalance(amount) ==
    ~isNullish(amount) /\ ~isValidAmount(roundedAmount(amount))

\* The rules of mapAccount, in the order of C16, and the error of each.
AccountRules == 1 .. 7

violates(r, i) ==
    CASE i = 1 -> ~(r.type.kind = "string"
                    /\ r.type.value \in SUPPORTED_ACCOUNT_TYPES)
      [] i = 2 -> isNullish(chosenCurrency(r.balances))
      [] i = 3 -> /\ ~isNullish(chosenCurrency(r.balances))
                  /\ ~(chosenCurrency(r.balances).kind = "string"
                       /\ chosenCurrency(r.balances).value
                             \in SUPPORTED_CURRENCIES)
      [] i = 4 -> isNullish(r.balances.current)
      [] i = 5 -> invalidBalance(r.balances.current)
      [] i = 6 -> invalidBalance(r.balances.available)
      [] i = 7 -> invalidBalance(r.balances.limit)

ruleError(i) ==
    CASE i = 1 -> [_tag |-> "AccountUnsupportedType", field |-> "none"]
      [] i = 2 -> [_tag |-> "AccountMissingCurrency", field |-> "none"]
      [] i = 3 -> [_tag |-> "AccountUnsupportedCurrency", field |-> "none"]
      [] i = 4 -> [_tag |-> "AccountBalanceMissing", field |-> "current"]
      [] i = 5 -> [_tag |-> "AccountBalanceInvalid", field |-> "current"]
      [] i = 6 -> [_tag |-> "AccountBalanceInvalid", field |-> "available"]
      [] i = 7 -> [_tag |-> "AccountBalanceInvalid", field |-> "limit"]

violated(r) == {i \in AccountRules : violates(r, i)}

earliest(S) == CHOOSE i \in S : \A j \in S : i <= j

\* C16: the mapping of an account record fails exactly when the record
\* violates one of the rules: unsupported type, missing currency,
\* unsupported currency, missing current balance, invalid current balance,
\* invalid available balance, invalid limit; and it fails with the error of
\* the earliest of the rules the record violates, whichever later rules it
\* violates as well.
C16_FirstFailureWins ==
    (mapped # NotMapped /\ raw.kind = "account" /\ identified(raw.record)) =>
        LET V == violated(raw.record) IN
            IF V = {}
            THEN ~mapped.threw /\ mapped.ok
            ELSE /\ ~mapped.threw /\ ~mapped.ok
                 /\ mapped.error._tag = ruleError(earliest(V))._tag
                 /\ earliest(V) >= 4 =>
                       mapped.error.field = ruleError(earliest(V)).field

\* A record that violates every rule but the third has been mapped: it
\* failed on its type.
C16_Witness ==
    /\ mapped # NotMapped
    /\ raw.kind = "account"
    /\ identified(raw.record)
    /\ violated(raw.record) = {1, 2, 4, 6, 7}
    /\ mapped.error._tag = "AccountUnsupportedType"

\* C17: both mappings go by the ISO currency code whenever the record has
\* one, even if it has a different unofficial code, and by the unofficial
\* code only when it has no ISO code.  With neither code the mapping fails
\* with the missing-currency error; with a code outside NZD, USD, AUD, EUR,
\* GBP, BTC, ETH it fails with the unsupported-currency error carrying that
\* code, and never falls back on the other code; with a supported code every
\* amount of the mapped value is in that currency.  (For an account record
\* this is the mapping of a record with an accepted id and a supported type.)
C17_CurrencyChoice ==
    /\ (/\ mapped # NotMapped /\ raw.kind = "account"
        /\ identified(raw.record) /\ ~violates(raw.record, 1)) =>
          LET b == raw.record.balances
              code == IF ~isNullish(b.iso_currency_code)
                      THEN b.iso_currency_code
                      ELSE b.unofficial_currency_code
          IN  IF isNullish(b.iso_currency_code)
                 /\ isNullish(b.unofficial_currency_code)
              THEN mapped = Fail([_tag |-> "AccountMissingCurrency",
                                  accountId |-> raw.record.account_id])
              ELSE IF code.value \notin SUPPORTED_CURRENCIES
              THEN mapped = Fail([_tag |-> "AccountUnsupportedCurrency",
                                  accountId |-> raw.record.account_id,
                                  currency |-> code])
              ELSE IF mapped.ok
              THEN /\ mapped.value.currentBalance.currency = code.value
                   /\ mapped.value.availableBalance # NoMoney =>
                         mapped.value.availableBalance.currency = code.value
                   /\ mapped.value.creditLimit # NoMoney =>
                         mapped.value.creditLimit.currency = code.value
              ELSE mapped.error._tag \in {"AccountBalanceMissing",
                                          "AccountBalanceInvalid"}
    /\ (mapped # NotMapped /\ raw.kind = "transaction") =>
          LET t == raw.record
              code == IF ~isNullish(t.iso_currency_code)
                      THEN t.iso_currency_code
                      ELSE t.unofficial_currency_code
          IN  IF isNullish(t.iso_currency_code)
                 /\ isNullish(t.unofficial_currency_code)
              THEN mapped = Fail([_tag |-> "TransactionMissingCurrency",
                                  transactionId |-> t.transaction_id])
              ELSE IF code.value \notin SUPPORTED_CURRENCIES
              THEN mapped = Fail([_tag |-> "TransactionUnsupportedCurrency",
                                  transactionId |-> t.transaction_id,
                                  currency |-> code])
              ELSE IF mapped.threw THEN TRUE
              ELSE IF mapped.ok
              THEN mapped.value.amount.currency = code.value
              ELSE mapped.error._tag = "TransactionInvalidAmount"

\* An account record with the ISO code JPY and the unofficial code USD has
\* been mapped: it failed on JPY.
C17_Witness ==
    /\ mapped # NotMapped
    /\ raw.kind = "account"
    /\ raw.record.balances.iso_currency_code = Str("JPY")
    /\ raw.record.balances.unofficial_currency_code = Str("USD")
    /\ ~mapped.threw /\ ~mapped.ok
    /\ mapped.error._tag = "AccountUnsupportedCurrency"
    /\ mapped.error.currency = Str("JPY")

\* C18: in the mapping of an account record (one with an accepted id, a
\* supported type and a supported currency), a current balance that is null
\* or undefined fails with AccountBalanceMissing for the field "current"; an
\* available balance or a limit that is null or undefined is mapped to null
\* and is never what the mapping fails on; and a mapped account is active
\* and has a currentBalance in the currency the record resolved to.
C18_BalancesPresence ==
    (/\ mapped # NotMapped /\ raw.kind = "account"
     /\ identified(raw.record)
     /\ \A i \in {1, 2, 3} : ~violates(raw.record, i)) =>
        LET b == raw.record.balances IN
            /\ ~mapped.threw
            /\ isNullish(b.current) =>
                  mapped = Fail([_tag |-> "AccountBalanceMissing",
                                 accountId |-> raw.record.account_id,
                                 field |-> "current"])
            /\ ~mapped.ok =>
                  /\ mapped.error._tag = "AccountBalanceMissing" =>
                        mapped.error.field = "current"
                  /\ mapped.error._tag = "AccountBalanceInvalid" =>
                        \/ mapped.error.field = "current"
                             /\ ~isNullish(b.current)
                        \/ mapped.error.field = "available"
                             /\ ~isNullish(b.available)
                        \/ mapped.error.field = "limit"
                             /\ ~isNullish(b.limit)
            /\ (\A i \in AccountRules : ~violates(raw.record, i)) => mapped.ok
            /\ mapped.ok =>
                  /\ mapped.value.state = "active"
                  /\ mapped.value.currentBalance # NoMoney
                  /\ mapped.value.currentBalance.currency
                        = chosenCurrency(b).value
                  /\ isNullish(b.available) =>
                        mapped.value.availableBalance = NoMoney
                  /\ isNullish(b.limit) => mapped.value.creditLimit = NoMoney

\* A record without available balance and without limit has been mapped to
\* an account.
C18_Witness ==
    /\ mapped # NotMapped
    /\ raw.kind = "account"
    /\ raw.record.balances.available = Undefined
    /\ raw.record.balances.limit = Null
    /\ ~mapped.threw /\ mapped.ok
    /\ mapped.value.availableBalance = NoMoney
    /\ mapped.value.creditLimit = NoMoney
    /\ mapped.value.state = "active"

\* Rounding to the nearest cent, a tie going to the cent further from zero.
roundHalfAwayFromZero(mills) ==
    IF mills >= 0 THEN (mills + 5) \div 10 ELSE -((5 - mills) \div 10)

\* The amount of a mapped Money, or of null, is the rounding of a raw field.
roundedFrom(money, field) ==
    field.kind = "number" =>
        /\ money # NoMoney
        /\ money.amount = roundHalfAwayFromZero(field.mills)

\* C19: every amount of a mapped account (current, available and limit
\* balance) and of a mapped transaction is the raw amount rounded to two
\* decimal places, a tie going away from zero, for negative amounts as for
\* positive ones.
C19_HalfAwayFromZero ==
    (mapped # NotMapped /\ ~mapped.threw /\ mapped.ok) =>
        IF raw.kind = "account"
        THEN /\ roundedFrom(mapped.value.currentBalance,
                            raw.record.balances.current)
             /\ roundedFrom(mapped.value.availableBalance,
                            raw.record.balances.available)
             /\ roundedFrom(mapped.value.creditLimit,
                            raw.record.balances.limit)
        ELSE roundedFrom(mapped.value.amount, raw.record.amount)

(***************************************************************************)
(* Properties of Money.                                                    *)
(***************************************************************************)
\* Number.isFinite(n)
isFinite(n) == n.kind = "number"

\* A Money value as the claim describes it: scale 2 and an amount, a whole
\* number of cents, that the constructor accepts.
wholeCents(money) ==
    /\ money.scale = 2
    /\ money.amount \in Int
    /\ isValidAmount(Num(10 * money.amount))

firstOperand ==
    IF moneyArgs.op = "multiply" THEN moneyArgs.money ELSE moneyArgs.a

\* C21: add, subtract and multiply never change the currency: a successful
\* add(a, b), subtract(a, b) or multiply(a, f) has the currency of a, for
\* operands of one currency in particular; and no money operation fails
\* with CurrencyMismatch.
C21_CurrencyPreserved ==
    moneyRet # NotRun =>
        /\ (moneyArgs.op \in {"add", "subtract", "multiply"} /\ moneyRet.ok) =>
              moneyRet.value.currency = firstOperand.currency
        /\ ~moneyRet.ok => moneyRet.error._tag # "CurrencyMismatch"

\* Two amounts of one currency, neither zero, were added.
C21_Witness ==
    /\ moneyRet # NotRun
    /\ moneyRet.ok
    /\ moneyArgs.op = "add"
    /\ moneyArgs.a.currency = moneyArgs.b.currency
    /\ moneyArgs.a.amount # 0 /\ moneyArgs.b.amount # 0
    /\ moneyRet.value.currency = moneyArgs.a.currency

\* The step is the start of an execute whose key has an execute in flight.
StartsOverlapping ==
    /\ isStart(ev')
    /\ \E f \in inflight : f.key = ev'.key

\* The start of an execute runs the operation: it is a miss, and the run it
\* starts is the next of the counter.
RunsOwnOperation ==
    /\ ev'.type = "miss"
    /\ calls' = calls + 1
    /\ [key |-> ev'.key, run |-> calls'] \in inflight'
    /\ inflight \subseteq inflight'

\* C22 as stated: an execute(key) that starts while another execute(key) is
\* in flight finds no cached entry and runs its own operation; each call
\* returns its own exit; and a call that settles leaves its exit as the
\* entry of the key, so the entry is that of the call that settled last.
C22_Original ==
    [][/\ StartsOverlapping => RunsOwnOperation
       /\ ReturnsOwnExit
       /\ StoresExit]_vars

\* C22 amended: ... while another execute(key) is in flight and no entry
\* of the key is stored whose expiresAt has not passed (no third execute
\* of the key has settled in the meantime) ...
C22_OverlapRunsTwice ==
    [][/\ (/\ StartsOverlapping
           /\ (~storeHas(store, ev'.key) \/ hasPast(store, ev'.key, now')))
          => RunsOwnOperation
       /\ ReturnsOwnExit
       /\ StoresExit]_vars

\* C22 witness: the second execute of the key has started while the first
\* is in flight, and both operations are running.
C22_Witness ==
    /\ ev.type = "miss" /\ ev.key = watch
    /\ calls = 2
    /\ [key |-> watch, run |-> 1] \in inflight
    /\ [key |-> watch, run |-> 2] \in inflight

\* Every entry of s2 is an entry of s.
entriesFrom(s2, s) ==
    \A i \in 1..Len(s2) : \E j \in 1..Len(s) : s[j] = s2[i]

\* An entry is written only by an execute that settles, and it is the exit
\* of the run that execute started.
WrittenAtSettle ==
    IF ev'.type = "settle"
    THEN \E f \in inflight :
            /\ f.key = ev'.key
            /\ inflight' = inflight \ {f}
            /\ storeGet(store', f.key).exit.run = f.run
            /\ entriesFrom(storeDelete(store', f.key), store)
    ELSE entriesFrom(store', store)

\* The entry of k leaves the store only by clear(k), by the pruning of an
\* execute once its expiresAt has passed, or by the eviction of an execute
\* that found the store at capacity.
LeavesOnlyBy(k) ==
    (storeHas(store, k) /\ ~storeHas(store', k)) =>
        \/ ev'.type = "clear" /\ ev'.key = k
        \/ isStart(ev') /\ hasPast(store, k, now)
        \/ /\ ev'.type = "miss"
           /\ Len(unexpired(store, now)) >= maxEntries
           /\ Head(unexpired(store, now)).key = k

\* The start of an execute whose key has a stored entry that is not past
\* its expiresAt replays that entry and runs nothing.
ReplaysStored ==
    (/\ isStart(ev')
     /\ storeHas(store, ev'.key)
     /\ ~hasPast(store, ev'.key, now'))
    => /\ ev'.type = "hit"
       /\ ret' = storeGet(store, ev'.key).exit
       /\ calls' = calls
       /\ inflight' = inflight

\* C23: an exit is written to the store only when the wrapped operation
\* has settled; the execute that settles stores its exit; the entry stays
\* until clear(key), expiry or eviction; and an execute(key) that starts
\* while it is stored and not expired returns it without running its
\* operation.
C23_StoredAfterSettle ==
    [][/\ WrittenAtSettle
       /\ StoresExit
       /\ \A k \in Keys : LeavesOnlyBy(k)
       /\ ReplaysStored]_vars

\* C23 witness: the one operation run has settled, and a later execute of
\* its key has replayed the exit.
C23_Witness ==
    /\ ev.type = "hit" /\ ev.key = watch
    /\ calls = 1
    /\ inflight = {}
    /\ storeHas(store, watch)
    /\ ret = storeGet(store, watch).exit
    /\ ret.run = 1

\* C24: a successful withdraw(account, amount) leaves as currentBalance the
\* available amount (availableBalance, or currentBalance when there is
\* none) minus the amount, whatever currentBalance was, and leaves every
\* other field but the two timestamps as it was.
C24_WithdrawFromAvailable ==
    \A m \in MoneyValues :
        LET r         == withdraw(account, m, accountNow)
            available == availableOf(account)
        IN  r.ok =>
               r.account = [account EXCEPT
                              !.currentBalance =
                                  MoneyOf(available.amount - m.amount,
                                          available.currency),
                              !.updatedAt = accountNow,
                              !.lastSyncedAt = accountNow]

\* A withdrawal has succeeded on an account whose availableBalance is 0.02,
\* and the currentBalance it left is 0.01, the available amount minus 0.01.
C24_Witness ==
    /\ out.op = "withdraw"
    /\ out.ok
    /\ account.availableBalance # NoMoney
    /\ account.availableBalance.amount = 2
    /\ account.currentBalance.amount = 1
    /\ account.updatedAt = 1

\* The accounts the claim lets withdraw: depository, and not a CD.
depositoryNonCd(acc) == acc.type = "depository" /\ acc.subtype # "cd"

\* C25: on an active account, withdraw fails with OperationNotSupported
\* (operation "withdraw") for every amount and every balance when the type
\* is not depository or the subtype is cd, and never fails with
\* OperationNotSupported when the account is a depository account other
\* than a CD; and withdraw fails with InsufficientFunds only on an account
\* that is active and a depository account other than a CD.
C25_WithdrawSupport ==
    /\ \A m \in MoneyValues :
          LET r == withdraw(account, m, accountNow) IN
              /\ (isActive(account) /\ ~depositoryNonCd(account)) =>
                    /\ ~r.ok
                    /\ r.error._tag = "OperationNotSupported"
                    /\ r.error.accountId = account.id
                    /\ r.error.operation = "withdraw"
              /\ (isActive(account) /\ depositoryNonCd(account)) =>
                    (r.ok \/ r.error._tag # "OperationNotSupported")
              /\ (~r.ok /\ r.error._tag = "InsufficientFunds") =>
                    (isActive(account) /\ depositoryNonCd(account))
    /\ (out.op = "withdraw" /\ ~out.ok) =>
          /\ out.error._tag = "InsufficientFunds" =>
                (isActive(account) /\ depositoryNonCd(account))
          /\ (isActive(account) /\ ~depositoryNonCd(account)) =>
                out.error._tag = "OperationNotSupported"

\* A withdrawal from an active CD account with a positive balance has just
\* failed with OperationNotSupported.
C25_Witness ==
    /\ out.op = "withdraw"
    /\ ~out.ok
    /\ out.error._tag = "OperationNotSupported"
    /\ account.state = "active"
    /\ account.type = "depository" /\ account.subtype = "cd"
    /\ availableOf(account).amount > 0

\* C26: a deposit that succeeds on an active account, of any type, whose
\* currentBalance is not negative leaves a currentBalance that is not
\* negative, whatever the amount.
C26_DepositNonNegative ==
    [][(/\ out'.op = "deposit" /\ out'.ok
        /\ isActive(account)
        /\ account.currentBalance.amount >= 0)
       => account'.currentBalance.amount >= 0]_vars

\* C27: on an instance with ttlMs = 0 every stored entry has no expiresAt;
\* an execute whose key has a stored entry replays it and runs nothing,
\* whatever the clock shows; and an entry leaves the store only by
\* clear(key) or by the eviction of an execute that found the store at
\* capacity, never because time has passed.
C27_NoExpiryWithoutTtl ==
    [][ttlMs = 0 =>
          /\ \A i \in 1..Len(store') : store'[i].expiresAt = NoExpiry
          /\ (isStart(ev') /\ storeHas(store, ev'.key)) =>
                /\ ev'.type = "hit"
                /\ ret' = storeGet(store, ev'.key).exit
                /\ calls' = calls
                /\ store' = store
          /\ \A k \in Keys :
                (storeHas(store, k) /\ ~storeHas(store', k)) =>
                    \/ ev'.type = "clear" /\ ev'.key = k
                    \/ /\ ev'.type = "miss"
                       /\ Len(store) >= maxEntries
                       /\ Head(store).key = k
          /\ ev'.type = "tick" => store' = store]_vars

\* C27 witness: with ttlMs = 0 and the clock at its last value, an execute
\* has replayed the exit of the one operation run.
C27_Witness ==
    /\ ttlMs = 0
    /\ now = MaxTime
    /\ ev.type = "hit" /\ ev.key = watch
    /\ calls = 1
    /\ ret.run = 1
    /\ storeGet(store, watch).expiresAt = NoExpiry

\* acc2 is acc but for currentBalance and the two timestamps.
onlyBalanceChanged(acc, acc2) ==
    acc2 = [acc EXCEPT !.currentBalance = acc2.currentBalance,
                       !.updatedAt = acc2.updatedAt,
                       !.lastSyncedAt = acc2.lastSyncedAt]

\* C28: a successful withdraw or deposit changes nothing but currentBalance,
\* updatedAt and lastSyncedAt, availableBalance and creditLimit in
\* particular staying as they were; so on an account with an
\* availableBalance a withdrawal that succeeded succeeds again on the
\* account it returned, and withdrawing the whole available amount, when
\* that is positive, succeeds twice in a row: the total withdrawn exceeds
\* the available balance the account started with.
C28_OnlyBalanceChanges ==
    /\ \A m \in MoneyValues :
          LET w1 == withdraw(account, m, accountNow)
              d1 == deposit(account, m, accountNow)
          IN  /\ w1.ok => onlyBalanceChanged(account, w1.account)
              /\ d1.ok => onlyBalanceChanged(account, d1.account)
              /\ (w1.ok /\ account.availableBalance # NoMoney) =>
                    withdraw(w1.account, m, accountNow).ok
    /\ (/\ isActive(account) /\ depositoryNonCd(account)
        /\ account.availableBalance # NoMoney
        /\ account.availableBalance.amount > 0) =>
          LET w1 == withdraw(account, account.availableBalance, accountNow)
          IN  /\ w1.ok
              /\ w1.account.availableBalance = account.availableBalance
              /\ withdraw(w1.account, account.availableBalance, accountNow).ok
    /\ (out.op \in {"withdraw", "deposit"} /\ out.ok) =>
          account.updatedAt = accountNow /\ account.lastSyncedAt = accountNow

\* The whole available amount, 0.03, has been withdrawn, and the account
\* still shows an availableBalance of 0.03.
C28_Witness ==
    /\ out.op = "withdraw"
    /\ out.ok
    /\ account.availableBalance # NoMoney
    /\ account.availableBalance.amount = MaxCents
    /\ account.currentBalance.amount = 0
    /\ account.lastSyncedAt = 1

\* C29: an execute that replays a stored entry leaves that entry as it was,
\* its expiresAt included, and it replays only an entry whose expiresAt has
\* not passed; the expiresAt of a key's entry changes only when an execute
\* of that key settles and stores, with the time of storing + ttlMs.  So
\* with ttlMs > 0 an entry stored at t is not replayed when the lookup comes
\* after t + ttlMs, however often it was replayed before.
C29_HitKeepsExpiry ==
    [][/\ ev'.type = "hit" =>
             /\ storeHas(store, ev'.key)
             /\ storeHas(store', ev'.key)
             /\ storeGet(store', ev'.key) = storeGet(store, ev'.key)
             /\ ret' = storeGet(store, ev'.key).exit
             /\ ~pastExpiry(storeGet(store, ev'.key), now')
       /\ (isStart(ev') /\ hasPast(store, ev'.key, now')) =>
             ev'.type = "miss"
       /\ \A k \in Keys :
             (/\ storeHas(store, k) /\ storeHas(store', k)
              /\ storeGet(store', k) # storeGet(store, k)) =>
                 /\ ev'.type = "settle" /\ ev'.key = k
                 /\ storeGet(store', k).expiresAt = newExpiry(ttlMs, now')]_vars

\* C29 witness: with ttlMs = 1, the entry of the one operation run, whose
\* expiresAt is 1, has just been replayed at time 1, its last moment.
C29_Witness ==
    /\ ttlMs = 1
    /\ now = 1
    /\ ev.type = "hit" /\ ev.key = watch
    /\ calls = 1
    /\ storeGet(store, watch).expiresAt = 1
    /\ ret = storeGet(store, watch).exit

\* C30: clear(key) deletes the entry of key and nothing else: the other
\* entries and their order stay, the store is unchanged when key has no
\* entry, and the executes in flight, those of key included, stay in
\* flight.  An execute(key) that was in flight at the clear stores its exit
\* when it settles, and while no execute(key) has started since the clear,
\* the next one replays the entry stored after the clear instead of running
\* its operation (as long as it is not past its expiresAt).
C30_ClearDoesNotCancel ==
    [][/\ ev'.type = "clear" =>
             /\ store' = SelectSeq(store, LAMBDA r : r.key # ev'.key)
             /\ ~storeHas(store, ev'.key) => store' = store
             /\ inflight' = inflight
             /\ calls' = calls
       /\ StoresExit
       /\ ReturnsOwnExit
       /\ (/\ w.fresh = "raced"
           /\ isStart(ev') /\ ev'.key = watch
           /\ storeHas(store, watch)
           /\ ~hasPast(store, watch, now'))
          => /\ ev'.type = "hit"
             /\ ret' = storeGet(store, watch).exit
             /\ calls' = calls]_vars

\* C30 witness: clear(key) ran while an execute(key) was in flight, that
\* execute has just settled, and its exit is the stored entry of the key.
C30_Witness ==
    /\ w.fresh = "raced"
    /\ ev.type = "settle" /\ ev.key = watch
    /\ storeHas(store, watch)
    /\ storeGet(store, watch).exit = ret
    /\ inflight = {}

====
